---- MODULE Spec2Model ----
(***************************************************************************)
(* Session controller of regcli (src/src/context.rs, AppContext): the      *)
(* navigation stack of opened registry keys, the two table selections, the *)
(* view state, the pending input session with its validator and confirm    *)
(* closures, and the message overlay.  The registry itself is the          *)
(* environment: what a key holds is chosen when the key is opened, and     *)
(* every registry call may fail.                                           *)
(***************************************************************************)
EXTENDS Integers, Sequences, FiniteSets, TLC

VARIABLES key_states, key_table, value_table, view_state, input, message,
          panicked, last, commands

vars == <<key_states, key_table, value_table, view_state, input, message,
          panicked, last, commands>>

----------------------------------------------------------------------------
(* Bounds of the model.                                                    *)

\* deepest navigation stack explored
MaxDepth == 2
\* how many commands (create, rename, delete) the user starts in a session
MaxCommands == 1

----------------------------------------------------------------------------
(* Program constants.                                                      *)

ITEM_HEIGHT == 1
InitialValueRows == 100
MaxKeyNameLen == 255
MaxValueNameLen == 16383

base_path == "Computer"
base_subkeys == <<"HKEY_CLASSES_ROOT", "HKEY_CURRENT_USER", "HKEY_LOCAL_MACHINE",
                  "HKEY_USERS", "HKEY_CURRENT_CONFIG">>
TYPE_STRINGS == <<"REG_BINARY", "REG_SZ", "REG_EXPAND_SZ", "REG_MULTI_SZ",
                  "REG_DWORD", "REG_QWORD", "REG_NONE">>
get_type_choices_vec == SubSeq(TYPE_STRINGS, 1, Len(TYPE_STRINGS) - 1)

GoUp == ".."

----------------------------------------------------------------------------
(* Strings.  A string of the program is a TLA+ string; Chars gives its     *)
(* bytes, on which comparison, lower-casing, trimming and searching work.  *)

LongText == "xxx...(256)"
Texts == {"a", "A", "-", "", " ", "a/b", LongText}

Chars(s) ==
    CASE s = "a" -> <<97>>
      [] s = "A" -> <<65>>
      [] s = "b" -> <<98>>
      [] s = "-" -> <<45>>
      [] s = ".." -> <<46, 46>>
      [] s = "" -> <<>>
      [] s = " " -> <<32>>
      [] s = "a/b" -> <<97, 47, 98>>
      [] s = LongText -> [i \in 1..256 |-> 120]

\* char::to_lowercase on the ASCII range
LowerChar(c) == IF c >= 65 /\ c <= 90 THEN c + 32 ELSE c

\* a to_lowercase that leaves every letter as it is
to_lowercase_same(s) == Chars(s)

to_lowercase(s) == LET bytes == Chars(s) IN [i \in DOMAIN bytes |-> LowerChar(bytes[i])]

IsWhitespace(c) == c \in {9, 10, 11, 12, 13, 32}

\* input.trim().is_empty()
TrimIsEmpty(s) == LET bytes == Chars(s) IN \A i \in DOMAIN bytes : IsWhitespace(bytes[i])

\* a contains('/') that never finds the character
ContainsSlash_never(s) == FALSE

\* input.contains('/')
ContainsSlash(s) == LET bytes == Chars(s) IN \E i \in DOMAIN bytes : bytes[i] = 47

StrLen(s) == Len(Chars(s))

\* Ord of <[u8]>::cmp: "Less", "Equal" or "Greater"
BytesCmp(x, y) ==
    LET n == IF Len(x) < Len(y) THEN Len(x) ELSE Len(y)
        diff == {i \in 1..n : x[i] # y[i]}
    IN  IF diff = {}
        THEN IF Len(x) < Len(y) THEN "Less"
             ELSE IF Len(x) > Len(y) THEN "Greater" ELSE "Equal"
        ELSE LET k == CHOOSE i \in diff : \A j \in diff : i <= j
             IN  IF x[k] < y[k] THEN "Less" ELSE "Greater"

\* String::cmp
StrCmp(s, t) == BytesCmp(Chars(s), Chars(t))

\* slice::binary_search_by(|s| s.cmp(name)), indices 0-based as in the code:
\* <<"Ok", i>> or <<"Err", i>>
RECURSIVE BinarySearchLoop(_, _, _, _)
BinarySearchLoop(list, name, base, size) ==
    IF size > 1
    THEN LET half == size \div 2
             mid == base + half
             cmp == StrCmp(list[mid + 1], name)
         IN  BinarySearchLoop(list, name,
                              IF cmp = "Greater" THEN base ELSE mid,
                              size - half)
    ELSE base

binary_search(list, name) ==
    IF Len(list) = 0 THEN <<"Err", 0>>
    ELSE LET base == BinarySearchLoop(list, name, 0, Len(list))
             cmp == StrCmp(list[base + 1], name)
         IN  IF cmp = "Equal" THEN <<"Ok", base>>
             ELSE <<"Err", base + (IF cmp = "Less" THEN 1 ELSE 0)>>

\* Vec::insert(index, x), index 0-based
VecInsert(list, index, x) ==
    SubSeq(list, 1, index) \o <<x>> \o SubSeq(list, index + 1, Len(list))

\* Vec::remove(index), index 0-based
VecRemove(list, index) ==
    SubSeq(list, 1, index) \o SubSeq(list, index + 2, Len(list))

\* iter().position(|a| *a == x), 0-based; -1 when absent
Position(list, x) ==
    IF \E i \in DOMAIN list : list[i] = x
    THEN (CHOOSE i \in DOMAIN list : list[i] = x /\ \A j \in 1..(i - 1) : list[j] # x) - 1
    ELSE -1

----------------------------------------------------------------------------
(* The registry (windows_registry, reached through src/src/registry.rs).   *)
(* A key handle is modelled by what the registry holds under that key: a   *)
(* function from the names of its subkeys to the value names each holds.   *)

\* the rows of the root listing that are opened (HKEY_CURRENT_USER)
OpenedRoots == {1}

\* names the registry may hold under a key that is opened
StoreNames == {"a", "-"}

\* registry key names are unique up to letter case
CaseDistinct(S) == \A x, y \in S : to_lowercase(x) = to_lowercase(y) => x = y

\* the values found under a subkey that exists when its parent is opened
StoreValues(name) ==
    CASE name = "a" -> <<"a", "-">>
      [] name = "-" -> <<"A">>
      [] OTHER -> <<>>

\* every order in which the names of S can be enumerated
Orders(S) ==
    {q \in [1..Cardinality(S) -> S] : \A i, j \in 1..Cardinality(S) : q[i] = q[j] => i = j}

\* registry::read_subkeys on a key depth levels below a root: Ok(listing), in
\* no particular order; only the roots hold subkeys when they are opened
read_subkeys_results(depth) ==
    IF depth = 0
    THEN UNION {Orders(S) : S \in {T \in SUBSET StoreNames : CaseDistinct(T)}}
    ELSE {<<>>}

\* the handle of a key whose subkeys enumerate as listing
OpenedKey(listing) == [n \in {listing[i] : i \in DOMAIN listing} |-> StoreValues(n)]

\* the subkey of key that path names (the registry ignores letter case)
StoreFind(key, path) == {n \in DOMAIN key : to_lowercase(n) = to_lowercase(path)}

\* Key::create / Key::rename / Key::remove_tree when they succeed
StoreCreate(key, name) ==
    IF StoreFind(key, name) # {} THEN key
    ELSE [n \in DOMAIN key \cup {name} |-> IF n \in DOMAIN key THEN key[n] ELSE <<>>]

StoreRemove(key, name) == [n \in DOMAIN key \ StoreFind(key, name) |-> key[n]]

StoreRename(key, original, new) ==
    LET old == StoreFind(key, original)
    IN  IF old = {} THEN key
        ELSE LET o == CHOOSE n \in old : TRUE
             IN  [n \in (DOMAIN key \ {o}) \cup {new} |-> IF n = new THEN key[o] ELSE key[n]]

----------------------------------------------------------------------------
(* State of AppContext.                                                    *)

\* HashMap::new()
EmptyMap == [n \in {} |-> <<>>]

NoFn == [fn |-> "None", subkeys |-> <<>>, values |-> <<>>, exclude |-> <<>>, name |-> ""]
NoMessage == [ty |-> "None", message |-> ""]

\* ScrollableTableState: the selected row and the content length
ScrollableTableState_new(content_length) ==
    [selected |-> 0, content_length |-> content_length]

\* a resize that keeps the selected index
resize_keep(table, content_length) == [table EXCEPT !.content_length = content_length]

\* ScrollableTableState::resize
resize(table, content_length) ==
    [selected |-> 0, content_length |-> content_length]

\* InputState::new
InputState_new ==
    [label |-> [text |-> "No Input Required", arg |-> <<>>], text |-> "", ty |-> "TextArea",
     items |-> <<>>, selected |-> 0, validate_fn |-> NoFn, confirm_fn |-> NoFn]

\* a frame whose breadcrumb restarts at the root label
KeyState_new_flat(key, name, subkeys, last_path) ==
    [key |-> key, subkeys |-> subkeys, cached_path |-> <<base_path, name>>,
     cached_values |-> EmptyMap]

\* KeyState::new; a breadcrumb is the sequence of its " -> "-joined parts
KeyState_new(key, name, subkeys, last_path) ==
    [key |-> key, subkeys |-> subkeys, cached_path |-> Append(last_path, name),
     cached_values |-> EmptyMap]

ViewKeys == [kind |-> "Keys", last |-> "None"]
ViewValues == [kind |-> "Values", last |-> "None"]
ViewInput(l) == [kind |-> "Input", last |-> l]
ViewMessage(l) == [kind |-> "Message", last |-> l]

\* a conversion that records no pane
LastSelected_from_none(view) == "None"

\* impl From<ViewState> for LastSelected; "unreachable" stands for the panic
LastSelected_from(view) ==
    IF view.kind \in {"Keys", "Values"} THEN view.kind ELSE "unreachable"

\* impl From<LastSelected> for ViewState
ViewState_from(l) ==
    IF l = "Keys" THEN ViewKeys ELSE IF l = "Values" THEN ViewValues
    ELSE [kind |-> "unreachable", last |-> "None"]

Last(op, post, store) == [op |-> op, post |-> post, store |-> store]

Init ==
    /\ key_states = <<>>
    /\ key_table = ScrollableTableState_new(Len(base_subkeys) * ITEM_HEIGHT)
    /\ value_table = ScrollableTableState_new(InitialValueRows * ITEM_HEIGHT)
    /\ view_state = ViewKeys
    /\ input = InputState_new
    /\ message = NoMessage
    /\ panicked = FALSE
    /\ last = Last("new", "-", "-")
    /\ commands = MaxCommands

----------------------------------------------------------------------------
(* Read accessors.                                                         *)

get_key_view_state == IF key_states = <<>> THEN "Base" ELSE "Subkey"

Top == key_states[Len(key_states)]

get_path == IF get_key_view_state = "Base" THEN <<base_path>> ELSE Top.cached_path

get_subkeys == IF get_key_view_state = "Base" THEN base_subkeys ELSE Top.subkeys

\* a cache lookup that never finds an entry
HasCached_never(frame, name) == FALSE

HasCached(frame, name) == name \in DOMAIN frame.cached_values

\* get_values: <<TRUE, values>> for Some(values), <<FALSE, <<>>>> for None
get_values_of(states, selected) ==
    IF states = <<>> THEN <<FALSE, <<>>>>
    ELSE LET frame == states[Len(states)]
             key_name == frame.subkeys[selected + 1]
         IN  IF HasCached(frame, key_name)
             THEN <<TRUE, frame.cached_values[key_name]>>
             ELSE <<FALSE, <<>>>>

get_values == get_values_of(key_states, key_table.selected)

\* usize::saturating_sub(1)
SatDec(n) == IF n = 0 THEN 0 ELSE n - 1

Min(a, b) == IF a < b THEN a ELSE b

get_current_view_max ==
    LET len == CASE view_state.kind = "Keys" -> Len(get_subkeys)
                 [] view_state.kind = "Values" -> Len(get_values[2])
                 [] OTHER -> 0
    IN  SatDec(len)

----------------------------------------------------------------------------
(* Browsing: the values cache, the selections and the navigation stack.    *)

\* a failed read that caches a list of one placeholder value
FailedRead_placeholder == <<"a">>

\* Err(_) => Vec::new(): the list cached when read_key or read_values fails
FailedRead == <<>>

\* what or_insert_with's closure can return for the subkey key_name, with the
\* outcome of the registry calls: the values the registry holds, or the list
\* of a failed read
fetch_values_results(key, key_name) ==
    {<<FailedRead, "read:Err">>}
      \cup {<<key[n], "read_values">> : n \in StoreFind(key, key_name)}

\* update_values: the set of <<key_states', value_table', registry call>>
update_values_results(states, kt, vt) ==
    IF states = <<>> THEN {<<states, vt, "-">>}
    ELSE LET d == Len(states)
             frame == states[d]
             key_name == frame.subkeys[kt.selected + 1]
         IN  IF HasCached(frame, key_name)
             THEN {<<states,
                     resize(vt, Len(frame.cached_values[key_name]) * ITEM_HEIGHT), "-">>}
             ELSE {<<[states EXCEPT ![d].cached_values =
                         [n \in DOMAIN frame.cached_values \cup {key_name} |->
                             IF n = key_name THEN r[1] ELSE frame.cached_values[n]]],
                     resize(vt, Len(r[1]) * ITEM_HEIGHT), r[2]>>
                   : r \in fetch_values_results(frame.key, key_name)}

\* a select_row_in that never refreshes the values
select_row_in_results_stale(view, i, vs, states, kt, vt) ==
    IF view \notin {"Keys", "Values"} THEN {<<states, kt, vt, "-">>}
    ELSE {<<states, IF view = "Keys" THEN [kt EXCEPT !.selected = i] ELSE kt,
            IF view = "Values" THEN [vt EXCEPT !.selected = i] ELSE vt, "-">>}

\* select_row_in(view, i) when the view state is vs:
\* the set of <<key_states', key_table', value_table', registry call>>
select_row_in_results(view, i, vs, states, kt, vt) ==
    IF view \notin {"Keys", "Values"} THEN {<<states, kt, vt, "-">>}
    ELSE LET kt2 == IF view = "Keys" THEN [kt EXCEPT !.selected = i] ELSE kt
             vt2 == IF view = "Values" THEN [vt EXCEPT !.selected = i] ELSE vt
         IN  IF vs.kind = "Keys"
             THEN {<<r[1], kt2, r[2], r[3]>> : r \in update_values_results(states, kt2, vt2)}
             ELSE {<<states, kt2, vt2, "-">>}

\* the intents of the browsing panes are dispatched in the Keys and Values views
NormalDispatch == view_state.kind \in {"Keys", "Values"}

get_selected_table == IF view_state.kind = "Keys" THEN key_table ELSE value_table

\* a step down that wraps to the first row at the end of the list
NextIndex_wrap(i, max) == IF i >= max THEN 0 ELSE i + 1

\* usize::saturating_add(1).min(max)
NextIndex(i, max) == Min(i + 1, max)

\* usize::saturating_sub(1)
PrevIndex(i) == SatDec(i)

MoveRow(op, i) ==
    IF view_state.kind \notin {"Keys", "Values"}
    THEN /\ last' = Last(op, "-", "-")
         /\ UNCHANGED <<key_states, key_table, value_table, view_state, input, message,
                        panicked, commands>>
    ELSE \E r \in select_row_in_results(view_state.kind, i, view_state,
                                        key_states, key_table, value_table) :
            /\ key_states' = r[1]
            /\ key_table' = r[2]
            /\ value_table' = r[3]
            /\ last' = Last(op, "-", r[4])
            /\ UNCHANGED <<view_state, input, message, panicked, commands>>

next_row ==
    /\ ~panicked /\ NormalDispatch
    /\ MoveRow("next_row", NextIndex(get_selected_table.selected, get_current_view_max))

prev_row ==
    /\ ~panicked /\ NormalDispatch
    /\ MoveRow("prev_row", PrevIndex(get_selected_table.selected))

\* a swap that leaves every view other than Keys for the Keys view
swap_viewing_table_always ==
    /\ ~panicked
    /\ view_state' = (IF view_state.kind = "Keys" THEN ViewValues ELSE ViewKeys)
    /\ last' = Last("swap_viewing_table", "-", "-")
    /\ UNCHANGED <<key_states, key_table, value_table, input, message, panicked, commands>>

\* swap_viewing_table
swap_viewing_table ==
    /\ ~panicked
    /\ view_state' = CASE view_state.kind = "Keys" -> ViewValues
                       [] view_state.kind = "Values" -> ViewKeys
                       [] OTHER -> view_state
    /\ last' = Last("swap_viewing_table", "-", "-")
    /\ UNCHANGED <<key_states, key_table, value_table, input, message, panicked, commands>>

\* an unwrap(), expect(), unreachable!() or todo!() that aborts the process:
\* the session is gone, and only what aborted it is kept
Panic(op, why) ==
    /\ panicked' = TRUE
    /\ last' = Last(op, "panic", why)
    /\ key_states' = <<>>
    /\ key_table' = ScrollableTableState_new(0)
    /\ value_table' = ScrollableTableState_new(0)
    /\ view_state' = ViewKeys
    /\ input' = InputState_new
    /\ message' = NoMessage
    /\ commands' = 0

\* create_subkeys: the listing with the go-up entry inserted at index 0
create_subkeys(listing) == <<GoUp>> \o listing

Pushed(new_state) ==
    /\ key_states' = Append(key_states, new_state)
    /\ key_table' = resize(key_table, Len(new_state.subkeys) * ITEM_HEIGHT)
    /\ last' = Last("select", "push", "open")
    /\ UNCHANGED <<value_table, view_state, input, message, panicked, commands>>

\* select() on the root listing: select_base(i), then the resize
select_base ==
    /\ ~panicked /\ NormalDispatch
    /\ get_key_view_state = "Base"
    /\ key_table.selected \in OpenedRoots
    /\ \E listing \in read_subkeys_results(0) :
          Pushed(KeyState_new(OpenedKey(listing), base_subkeys[key_table.selected + 1],
                              create_subkeys(listing), <<base_path>>))

\* a go-up that also forgets the values cached by the frame it returns to
select_key_up_forget ==
    /\ ~panicked /\ NormalDispatch
    /\ get_key_view_state = "Subkey"
    /\ key_table.selected = 0
    /\ key_states' = [i \in 1..(Len(key_states) - 1) |->
                         [key_states[i] EXCEPT !.cached_values = EmptyMap]]
    /\ key_table' = resize(key_table,
                           (IF Len(key_states) = 1 THEN Len(base_subkeys)
                            ELSE Len(key_states[Len(key_states) - 1].subkeys)) * ITEM_HEIGHT)
    /\ last' = Last("select", "pop", "-")
    /\ UNCHANGED <<value_table, view_state, input, message, panicked, commands>>

\* select() below the root with the go-up row selected: select_key(0)
select_key_up ==
    /\ ~panicked /\ NormalDispatch
    /\ get_key_view_state = "Subkey"
    /\ key_table.selected = 0
    /\ key_states' = SubSeq(key_states, 1, Len(key_states) - 1)
    /\ key_table' = resize(key_table,
                           (IF Len(key_states) = 1 THEN Len(base_subkeys)
                            ELSE Len(key_states[Len(key_states) - 1].subkeys)) * ITEM_HEIGHT)
    /\ last' = Last("select", "pop", "-")
    /\ UNCHANGED <<value_table, view_state, input, message, panicked, commands>>

\* select() below the root on any other row: select_key(index) opens the subkey
select_key_open ==
    /\ ~panicked /\ NormalDispatch
    /\ get_key_view_state = "Subkey"
    /\ key_table.selected # 0
    /\ Len(key_states) < MaxDepth
    /\ StoreFind(Top.key, get_subkeys[key_table.selected + 1]) # {}
    /\ \E listing \in read_subkeys_results(Len(key_states)) :
          Pushed(KeyState_new(OpenedKey(listing), get_subkeys[key_table.selected + 1],
                              create_subkeys(listing), Top.cached_path))

\* a select() that reports a failed open as an error message
select_panic_reported ==
    /\ ~panicked /\ NormalDispatch
    /\ \/ get_key_view_state = "Base"
       \/ get_key_view_state = "Subkey" /\ key_table.selected # 0
    /\ view_state' = ViewMessage(LastSelected_from(view_state))
    /\ message' = [ty |-> "Error", message |-> "Error when opening the key"]
    /\ last' = Last("select", "message", "open")
    /\ UNCHANGED <<key_states, key_table, value_table, input, panicked, commands>>

\* select(): read_key, read_subkeys or open fails and its unwrap() panics
select_panic ==
    /\ ~panicked /\ NormalDispatch
    /\ \/ get_key_view_state = "Base"
       \/ get_key_view_state = "Subkey" /\ key_table.selected # 0
    /\ Panic("select", "open")

----------------------------------------------------------------------------
(* Validators.  A validator closure is the record of what it captured;     *)
(* its result is "Ok" or the error text.                                   *)

Names(list) == {list[i] : i \in DOMAIN list}

key_name_validator(text, subkeys, exclude_keys) ==
    IF TrimIsEmpty(text) THEN "Can't be empty"
    ELSE IF ContainsSlash(text) THEN "Name of a key can't contain forward slashes"
    ELSE IF StrLen(text) > MaxKeyNameLen
         THEN "Name of a key can't be longer than 255 characters"
    ELSE LET found_key == \E a \in Names(subkeys) : to_lowercase(a) = to_lowercase(text)
             is_excluded == \E a \in Names(exclude_keys) : to_lowercase(a) = to_lowercase(text)
         IN  IF found_key /\ ~is_excluded THEN "This key already exists" ELSE "Ok"

value_name_validator(text, values, exclude_values) ==
    IF TrimIsEmpty(text) THEN "Can't be empty"
    ELSE IF ContainsSlash(text) THEN "Name of a value can't contain forward slashes"
    ELSE IF StrLen(text) > MaxValueNameLen
         THEN "Name of a value can't be longer than 16,383 characters"
    ELSE LET found_value == \E a \in Names(values) : to_lowercase(a) = to_lowercase(text)
             is_excluded == \E a \in Names(exclude_values) : to_lowercase(a) = to_lowercase(text)
         IN  IF found_value /\ ~is_excluded THEN "This value already exists" ELSE "Ok"

\* a rename validator without the test for the unchanged name
rename_key_validator_plain(text, subkeys, exclude) ==
    key_name_validator(text, subkeys, exclude)

\* the validate closure of rename_key
rename_key_validator(text, subkeys, exclude) ==
    IF text = exclude[1] THEN "The name of the key must be new"
    ELSE key_name_validator(text, subkeys, exclude)

\* (validate_fn)(text)
CallValidate(f, text) ==
    CASE f.fn = "key_name_validator" -> key_name_validator(text, f.subkeys, f.exclude)
      [] f.fn = "rename_key_validator" -> rename_key_validator(text, f.subkeys, f.exclude)
      [] f.fn = "value_name_validator" -> value_name_validator(text, f.values, f.exclude)
      [] f.fn = "new_value_data_validator" -> "Ok"

\* a validate that never consults the validator
validate_none(inp) == "None"

\* InputState::validate: "None" when there is no validator
validate(inp) ==
    IF inp.validate_fn.fn = "None" THEN "None" ELSE CallValidate(inp.validate_fn, inp.text)

ValidateFn(fn, subkeys, values, exclude) ==
    [fn |-> fn, subkeys |-> subkeys, values |-> values, exclude |-> exclude, name |-> ""]

ConfirmFn(fn, name) ==
    [fn |-> fn, subkeys |-> <<>>, values |-> <<>>, exclude |-> <<>>, name |-> name]

Label(text, arg) == [text |-> text, arg |-> arg]

\* truncate_name(s, max_len, sides_size), on the bytes of s
truncate_name(s, max_len, sides_size) ==
    LET c == Chars(s)
    IN  IF Len(c) <= max_len THEN c
        ELSE SubSeq(c, 1, sides_size) \o <<46, 46, 46>>
             \o SubSeq(c, Len(c) - sides_size + 1, Len(c))

----------------------------------------------------------------------------
(* The input session and the message overlay.                              *)

\* set_input_state: the view state it leaves
set_input_state_view(vs) ==
    IF vs.kind = "Input" THEN vs ELSE ViewInput(LastSelected_from(vs))

\* set_textarea_input, after the label was set
set_textarea_input(inp, label, validate_fn, confirm_fn) ==
    [label |-> label, text |-> "", ty |-> "TextArea", items |-> <<>>, selected |-> 0,
     validate_fn |-> validate_fn, confirm_fn |-> confirm_fn]

\* a choice prompt that starts on its last choice
set_choice_input_last(inp, label, choices, confirm_fn) ==
    [label |-> label, text |-> inp.text, ty |-> "Choice", items |-> choices,
     selected |-> Len(choices) - 1, validate_fn |-> NoFn, confirm_fn |-> confirm_fn]

\* set_choice_input, after the label was set: the text area is left as it is
set_choice_input(inp, label, choices, confirm_fn) ==
    [label |-> label, text |-> inp.text, ty |-> "Choice", items |-> choices,
     selected |-> 0, validate_fn |-> NoFn, confirm_fn |-> confirm_fn]

\* a reset that keeps the closures of the session
reset_input_state_keep(inp) ==
    [inp EXCEPT !.text = IF inp.ty = "TextArea" THEN "" ELSE inp.text,
                !.label = Label("No Input Required", <<>>)]

\* reset_input: the input session it leaves
reset_input_state(inp) ==
    [inp EXCEPT !.validate_fn = NoFn, !.confirm_fn = NoFn,
                !.text = IF inp.ty = "TextArea" THEN "" ELSE inp.text,
                !.label = Label("No Input Required", <<>>)]

\* a reset_input that always returns to the Keys view
reset_input_view_keys(vs) == IF vs.kind = "Input" THEN ViewKeys ELSE vs

\* reset_input: the view state it leaves
reset_input_view(vs) == IF vs.kind = "Input" THEN ViewState_from(vs.last) ELSE vs

AppMessage_info(text) == [ty |-> "Info", message |-> text]
AppMessage_error(text) == [ty |-> "Error", message |-> text]

\* set_message(message) from a browsing pane
set_message(op, msg) ==
    /\ view_state' = ViewMessage(LastSelected_from(view_state))
    /\ message' = msg
    /\ last' = Last(op, "message", "-")
    /\ UNCHANGED <<key_states, key_table, value_table, input, panicked, commands>>

\* a prompt is opened: set_textarea_input or set_choice_input
OpenInput(op, inp) ==
    /\ commands > 0
    /\ commands' = commands - 1
    /\ view_state' = set_input_state_view(view_state)
    /\ input' = inp
    /\ last' = Last(op, "input", "-")
    /\ UNCHANGED <<key_states, key_table, value_table, message, panicked>>

\* create() in the Keys view
new_key ==
    /\ ~panicked /\ view_state.kind = "Keys"
    /\ IF key_states = <<>>
       THEN set_message("new_key", AppMessage_error("Can't create a key here."))
       ELSE OpenInput("new_key",
                set_textarea_input(input, Label("Enter Name:", <<>>),
                    ValidateFn("key_name_validator", Top.subkeys, <<>>, <<>>),
                    ConfirmFn("new_key", "")))

\* get_selected_subkey: the selected name, or "None"
get_selected_subkey ==
    IF key_states = <<>> THEN <<FALSE, "">>
    ELSE IF key_table.selected + 1 \in DOMAIN Top.subkeys
         THEN <<TRUE, Top.subkeys[key_table.selected + 1]>>
         ELSE <<FALSE, "">>

\* create() in the Values view
new_value ==
    /\ ~panicked /\ view_state.kind = "Values"
    /\ IF ~get_selected_subkey[1]
       THEN set_message("new_value", AppMessage_info("No key selected."))
       ELSE IF ~HasCached(Top, get_selected_subkey[2])
       THEN Panic("new_value", "unreachable")
       ELSE OpenInput("new_value",
                set_textarea_input(input, Label("Enter Name:", <<>>),
                    ValidateFn("value_name_validator", <<>>,
                               Top.cached_values[get_selected_subkey[2]], <<>>),
                    ConfirmFn("new_value", "")))

\* rename() in the Keys view
rename_key ==
    /\ ~panicked /\ view_state.kind = "Keys"
    /\ IF key_states = <<>>
       THEN set_message("rename_key", AppMessage_error("Can't rename a key here."))
       ELSE IF key_table.selected = 0
       THEN set_message("rename_key", AppMessage_error("No key selected."))
       ELSE LET current_name == Top.subkeys[key_table.selected + 1]
            IN  OpenInput("rename_key",
                    set_textarea_input(input,
                        Label("Enter New Name", truncate_name(current_name, 10, 3)),
                        ValidateFn("rename_key_validator", Top.subkeys, <<>>,
                                   <<current_name>>),
                        ConfirmFn("rename_key", current_name)))

\* delete() in the Keys view
delete_key ==
    /\ ~panicked /\ view_state.kind = "Keys"
    /\ IF key_states = <<>>
       THEN set_message("delete_key", AppMessage_error("Can't delete a key here."))
       ELSE IF key_table.selected = 0
       THEN set_message("delete_key", AppMessage_error("No key selected."))
       ELSE OpenInput("delete_key",
                set_choice_input(input, Label("Confirm Delete:", <<>>), <<"No", "Yes">>,
                    ConfirmFn("delete_key", Top.subkeys[key_table.selected + 1])))

\* new_key, rename_key, delete_key: clone_key's expect() panics
clone_key_panic ==
    /\ ~panicked /\ view_state.kind = "Keys"
    /\ key_states # <<>>
    /\ Panic("clone_key", "open")

\* rename() and delete() in the Values view: rename_value, delete_value are todo!()
rename_value ==
    /\ ~panicked /\ view_state.kind = "Values"
    /\ Panic("rename_value", "todo")

delete_value ==
    /\ ~panicked /\ view_state.kind = "Values"
    /\ Panic("delete_value", "todo")

----------------------------------------------------------------------------
(* Confirmation: the confirm closures, the post-actions and the staging.   *)

\* registry::str_to_type
str_to_type(str) ==
    CASE str = "REG_BINARY" -> "Bytes"
      [] str = "REG_SZ" -> "String"
      [] str = "REG_EXPAND_SZ" -> "ExpandString"
      [] str = "REG_MULTI_SZ" -> "MultiString"
      [] str = "REG_DWORD" -> "U32"
      [] str = "REG_QWORD" -> "U64"
      [] OTHER -> "Other(0)"

PostAction(ty, name, new, vty) == [ty |-> ty, name |-> name, new |-> new, vty |-> vty]
PostAction_None == PostAction("None", "", "", "")

ConfirmResult(msg, action, key, call) ==
    [msg |-> msg, action |-> action, key |-> key, call |-> call]

\* an Err(err) arm that reports the failure as information
ErrResult_info(text, key, call) ==
    ConfirmResult(AppMessage_info(text), PostAction_None, key, call)

\* the Err(err) arm of a confirm closure: an error message and no post-action
ErrResult(text, key, call) ==
    ConfirmResult(AppMessage_error(text), PostAction_None, key, call)

\* (confirm_fn)(text) with the key handle the closure captured: every
\* <<message, post-action>> it can return, with the registry after the call
CallConfirm(f, text, key) ==
    CASE f.fn = "new_key" ->
            {ConfirmResult(AppMessage_info("New key successfully created."),
                           PostAction("AddSubkey", text, "", ""),
                           StoreCreate(key, text), "new_key:Ok"),
             ErrResult("Error when creating a new key", key, "new_key:Err")}
      [] f.fn = "rename_key" ->
            {ConfirmResult(AppMessage_info("The key has been successfully renamed."),
                           PostAction("RenameSubkey", f.name, text, ""),
                           StoreRename(key, f.name, text), "rename_key:Ok"),
             ErrResult("Error when renaming the key", key, "rename_key:Err")}
      [] f.fn = "delete_key" ->
            IF text = "No" THEN {ConfirmResult(NoMessage, PostAction_None, key, "-")}
            ELSE {ConfirmResult(AppMessage_info("The key has been successfully deleted."),
                                PostAction("DeleteSubkey", f.name, "", ""),
                                StoreRemove(key, f.name), "delete_key:Ok"),
                  ErrResult("Error when deleting the key", key, "delete_key:Err")}
      [] f.fn = "new_value" ->
            {ConfirmResult(NoMessage, PostAction("Stage:NewValueType", text, "", ""),
                           key, "-")}
      [] f.fn = "new_value_type" ->
            {ConfirmResult(NoMessage,
                           PostAction("Stage:NewValueData", f.name, "", str_to_type(text)),
                           key, "-")}
      [] f.fn = "new_value_data" ->
            {ConfirmResult(NoMessage, PostAction_None, key, "-")}

\* the registry call of a confirm closure succeeded
IsOk(call) == call \in {"new_key:Ok", "rename_key:Ok", "delete_key:Ok"}

PostResult(states, kt, vt) == [panic |-> FALSE, states |-> states, kt |-> kt, vt |-> vt]
PostPanic == [panic |-> TRUE, states |-> <<>>, kt |-> <<>>, vt |-> <<>>]

\* post_action_add_subkey when the view state is vs
post_action_add_subkey(action, vs, states, kt, vt) ==
    IF states = <<>> THEN {PostPanic}
    ELSE LET d == Len(states)
             found == binary_search(states[d].subkeys, action.name)
         IN  IF found[1] # "Err" THEN {PostPanic}
             ELSE LET index == found[2]
                      subkeys == VecInsert(states[d].subkeys, index, action.name)
                      states2 == [states EXCEPT ![d].subkeys = subkeys]
                  IN  {PostResult(r[1], r[2], r[3]) :
                         r \in select_row_in_results("Keys", index, vs, states2,
                                   resize(kt, Len(subkeys) * ITEM_HEIGHT), vt)}

\* a rename that also resizes the Children selection
post_action_rename_subkey_resized(action, vs, states, kt, vt) ==
    IF states = <<>> THEN {PostPanic}
    ELSE LET d == Len(states)
             subkey_index == Position(states[d].subkeys, action.name)
         IN  IF subkey_index < 0 THEN {PostPanic}
             ELSE {PostResult([states EXCEPT ![d].subkeys[subkey_index + 1] = action.new],
                              resize(kt, kt.content_length), vt)}

\* post_action_rename_subkey
post_action_rename_subkey(action, vs, states, kt, vt) ==
    IF states = <<>> THEN {PostPanic}
    ELSE LET d == Len(states)
             subkey_index == Position(states[d].subkeys, action.name)
         IN  IF subkey_index < 0 THEN {PostPanic}
             ELSE {PostResult([states EXCEPT ![d].subkeys[subkey_index + 1] = action.new],
                              kt, vt)}

\* a delete that leaves the selection on the removed index
RowBefore_same(index) == index

\* the row post_action_delete_subkey selects: index - 1
RowBefore(index) == index - 1

\* post_action_delete_subkey when the view state is vs; index - 1 on index 0
\* overflows: a panic with overflow checks, usize::MAX without
post_action_delete_subkey(action, vs, states, kt, vt) ==
    IF states = <<>> THEN {PostPanic}
    ELSE LET d == Len(states)
             found == binary_search(states[d].subkeys, action.name)
         IN  IF found[1] # "Ok" THEN {PostPanic}
             ELSE LET index == found[2]
                      subkeys == VecRemove(states[d].subkeys, index)
                      states2 == [states EXCEPT ![d].subkeys = subkeys]
                      kt2 == resize(kt, Len(subkeys) * ITEM_HEIGHT)
                  IN  IF index = 0
                      THEN {PostPanic,
                            PostResult(states2, [kt2 EXCEPT !.selected = 2^64 - 1], vt)}
                      ELSE {PostResult(r[1], r[2], r[3]) :
                              r \in select_row_in_results("Keys", RowBefore(index), vs, states2,
                                                          kt2, vt)}

\* input_stage_new_value_type
input_stage_new_value_type(inp, name) ==
    set_choice_input(inp, Label("Choose Type:", <<>>), get_type_choices_vec,
                     ConfirmFn("new_value_type", name))

\* input_stage_new_value_data: its closures capture nothing of the stage
input_stage_new_value_data(inp) ==
    set_textarea_input(inp, Label("Enter Value:", <<>>),
                       ValidateFn("new_value_data_validator", <<>>, <<>>, <<>>),
                       ConfirmFn("new_value_data", ""))

\* a post_action_stage that opens the type prompt for either stage
post_action_stage_type(inp, action) == input_stage_new_value_type(inp, action.name)

\* post_action_stage
post_action_stage(inp, action) ==
    IF action.ty = "Stage:NewValueType" THEN input_stage_new_value_type(inp, action.name)
    ELSE input_stage_new_value_data(inp)

IsStage(action) == action.ty \in {"Stage:NewValueType", "Stage:NewValueData"}

\* the match on the post-action in confirm_input, for the list post-actions
apply_post_action(action, vs, states, kt, vt) ==
    CASE action.ty = "AddSubkey" -> post_action_add_subkey(action, vs, states, kt, vt)
      [] action.ty = "RenameSubkey" -> post_action_rename_subkey(action, vs, states, kt, vt)
      [] action.ty = "DeleteSubkey" -> post_action_delete_subkey(action, vs, states, kt, vt)
      [] OTHER -> {PostResult(states, kt, vt)}

\* the text confirm_input hands to the closure
confirm_text(inp) ==
    IF inp.ty = "TextArea" THEN inp.text ELSE inp.items[inp.selected + 1]

\* the registry seen through the top frame's handle after a confirm closure ran
WithKey(states, key) ==
    IF states = <<>> THEN states ELSE [states EXCEPT ![Len(states)].key = key]

\* confirm_input: the validator rejects the text
confirm_input_rejected ==
    /\ ~panicked /\ view_state.kind = "Input"
    /\ validate(input) \notin {"None", "Ok"}
    /\ last' = Last("confirm_input", "rejected", "-")
    /\ UNCHANGED <<key_states, key_table, value_table, view_state, input, message,
                   panicked, commands>>

\* confirm_input: the closure runs, its message is set, its post-action applied
confirm_input ==
    /\ ~panicked /\ view_state.kind = "Input"
    /\ validate(input) \in {"None", "Ok"}
    /\ input.confirm_fn.fn # "None"
    /\ \E c \in CallConfirm(input.confirm_fn, confirm_text(input),
                            IF key_states = <<>> THEN EmptyMap ELSE Top.key) :
         /\ LET last_selected == IF view_state.kind = "Input" THEN view_state.last ELSE "None"
                vs1 == IF c.msg # NoMessage THEN ViewMessage(last_selected) ELSE view_state
            IN  \E p \in apply_post_action(c.action, vs1, WithKey(key_states, c.key),
                                           key_table, value_table) :
                  LET vs2 == IF IsStage(c.action) THEN set_input_state_view(vs1)
                             ELSE reset_input_view(vs1)
                  IN  IF p.panic \/ vs2.kind = "unreachable" \/ vs2.last = "unreachable"
                      THEN Panic("confirm_input", "unreachable")
                      ELSE /\ key_states' = p.states
                           /\ key_table' = p.kt
                           /\ value_table' = p.vt
                           /\ message' = IF c.msg # NoMessage THEN c.msg ELSE message
                           /\ view_state' = vs2
                           /\ input' = IF IsStage(c.action)
                                       THEN post_action_stage(input, c.action)
                                       ELSE reset_input_state(input)
                           /\ last' = Last("confirm_input", c.action.ty, c.call)
                           /\ UNCHANGED <<panicked, commands>>

\* the text area takes the keys typed: the text becomes t
edit_text ==
    /\ ~panicked /\ view_state.kind = "Input"
    /\ input.ty = "TextArea"
    /\ \E t \in Texts \ {input.text} :
          /\ input' = [input EXCEPT !.text = t]
          /\ last' = Last("edit_text", "-", "-")
    /\ UNCHANGED <<key_states, key_table, value_table, view_state, message, panicked, commands>>

next_input_choice ==
    /\ ~panicked /\ view_state.kind = "Input"
    /\ input.ty = "Choice"
    /\ input' = [input EXCEPT !.selected = (input.selected + 1) % Len(input.items)]
    /\ last' = Last("next_input_choice", "-", "-")
    /\ UNCHANGED <<key_states, key_table, value_table, view_state, message, panicked, commands>>

prev_input_choice ==
    /\ ~panicked /\ view_state.kind = "Input"
    /\ input.ty = "Choice"
    /\ input' = [input EXCEPT
                   !.selected = (input.selected + Len(input.items) - 1) % Len(input.items)]
    /\ last' = Last("prev_input_choice", "-", "-")
    /\ UNCHANGED <<key_states, key_table, value_table, view_state, message, panicked, commands>>

\* reset_input, the handler of the cancel intent
reset_input ==
    /\ ~panicked /\ view_state.kind = "Input"
    /\ IF reset_input_view(view_state).kind = "unreachable"
       THEN Panic("reset_input", "unreachable")
       ELSE /\ view_state' = reset_input_view(view_state)
            /\ input' = reset_input_state(input)
            /\ last' = Last("reset_input", "-", "-")
            /\ UNCHANGED <<key_states, key_table, value_table, message, panicked, commands>>

\* a cancel_message that returns to the pane and keeps the message
cancel_message_keep ==
    /\ ~panicked /\ view_state.kind = "Message"
    /\ view_state' = ViewState_from(view_state.last)
    /\ last' = Last("cancel_message", "-", "-")
    /\ UNCHANGED <<key_states, key_table, value_table, input, message, panicked, commands>>

\* cancel_message, the handler of any key in Message mode
cancel_message ==
    /\ ~panicked /\ view_state.kind = "Message"
    /\ IF ViewState_from(view_state.last).kind = "unreachable"
       THEN Panic("cancel_message", "unreachable")
       ELSE /\ view_state' = ViewState_from(view_state.last)
            /\ message' = NoMessage
            /\ last' = Last("cancel_message", "-", "-")
            /\ UNCHANGED <<key_states, key_table, value_table, input, panicked, commands>>

----------------------------------------------------------------------------
Next ==
    \/ next_row
    \/ prev_row
    \/ swap_viewing_table
    \/ select_base
    \/ select_key_up
    \/ select_key_open
    \/ select_panic
    \/ new_key
    \/ new_value
    \/ rename_key
    \/ delete_key
    \/ clone_key_panic
    \/ rename_value
    \/ delete_value
    \/ confirm_input_rejected
    \/ confirm_input
    \/ edit_text
    \/ next_input_choice
    \/ prev_input_choice
    \/ reset_input
    \/ cancel_message

Spec == Init /\ [][Next]_vars

\* the session in which the user starts one command more
InitSeq ==
    /\ key_states = <<>>
    /\ key_table = ScrollableTableState_new(Len(base_subkeys) * ITEM_HEIGHT)
    /\ value_table = ScrollableTableState_new(InitialValueRows * ITEM_HEIGHT)
    /\ view_state = ViewKeys
    /\ input = InputState_new
    /\ message = NoMessage
    /\ panicked = FALSE
    /\ last = Last("new", "-", "-")
    /\ commands = MaxCommands + 1

SpecSeq == InitSeq /\ [][Next]_vars

----------------------------------------------------------------------------
(* Properties.                                                             *)

Panes == {"Keys", "Values"}

\* the selected index and the displayed length of the pane the view state names
ActiveSel == IF view_state.kind = "Keys" THEN key_table.selected ELSE value_table.selected
ActiveLen == IF view_state.kind = "Keys" THEN Len(get_subkeys) ELSE Len(get_values[2])

\* a frame's list in the order the data model states: the go-up entry at
\* index 0 and the names after it ascending in String::cmp
FrameOrdered(list) ==
    /\ list # <<>>
    /\ list[1] = GoUp
    /\ \A i, j \in 2..Len(list) : i < j => StrCmp(list[i], list[j]) = "Less"

Occurrences(list, x) == Cardinality({i \in DOMAIN list : list[i] = x})

ValueFlow == {"new_value", "new_value_type", "new_value_data"}

Accepted == last'.op = "confirm_input" /\ last'.post \notin {"rejected", "panic"}

\* C1: the create-value command, started in the Values pane, asks for a name,
\* then a type, then the data: the first two confirmations return a Stage
\* post-action and leave the view state Input with the same returnTo, the
\* third returns the one terminal post-action (None), touches neither the
\* registry nor the navigation stack, and returns to the Values pane.
C1_StagedSequencing ==
    [][/\ (last'.op = "new_value" /\ last'.post = "input")
            => /\ view_state = ViewValues
               /\ view_state' = ViewInput("Values")
               /\ input'.confirm_fn.fn = "new_value"
       /\ (view_state.kind = "Input" /\ input.confirm_fn.fn \in ValueFlow)
            => view_state.last = "Values"
       /\ (Accepted /\ input.confirm_fn.fn = "new_value")
            => /\ last'.post = "Stage:NewValueType" /\ last'.store = "-"
               /\ view_state' = view_state
               /\ input'.confirm_fn.fn = "new_value_type"
               /\ input'.confirm_fn.name = input.text
               /\ input'.ty = "Choice" /\ input'.items = get_type_choices_vec
               /\ UNCHANGED <<key_states, key_table, value_table, message>>
       /\ (Accepted /\ input.confirm_fn.fn = "new_value_type")
            => /\ last'.post = "Stage:NewValueData" /\ last'.store = "-"
               /\ view_state' = view_state
               /\ input'.confirm_fn.fn = "new_value_data"
               /\ input'.ty = "TextArea"
               /\ UNCHANGED <<key_states, key_table, value_table, message>>
       /\ (Accepted /\ input.confirm_fn.fn = "new_value_data")
            => /\ last'.post = "None" /\ last'.store = "-"
               /\ view_state' = ViewValues
               /\ input'.confirm_fn.fn = "None" /\ input'.validate_fn.fn = "None"
               /\ UNCHANGED <<key_states, key_table, value_table, message>>
      ]_vars

\* the third confirmation of a create-value command has returned to the Values pane
C1_Witness ==
    /\ last = Last("confirm_input", "None", "-")
    /\ view_state = ViewValues
    /\ input.label.text = "No Input Required"

\* a step that leaves the navigation stack and the Children selection alone
NavigationKept == UNCHANGED <<key_states, key_table>>

\* C2: cancelling an input session, or dismissing a message, that was entered
\* from pane p makes the view state Browsing(p) again, and the navigation stack
\* and the Children selection are the ones from before the session: entering
\* records p, every step inside the session other than an accepted
\* confirmation keeps p, the stack and the selection, and leaving restores p.
C2_CancelRestoresPane ==
    [][/\ (last'.post \in {"input", "message"} /\ view_state.kind \in Panes)
            => /\ view_state'.kind = (IF last'.post = "input" THEN "Input" ELSE "Message")
               /\ view_state'.last = view_state.kind
               /\ NavigationKept
       /\ (view_state.kind \in {"Input", "Message"})
            => view_state.last \in Panes
       /\ (view_state.kind = "Input" /\ ~Accepted /\ last'.op # "reset_input" /\ ~panicked')
            => view_state' = view_state /\ NavigationKept
       /\ (view_state.kind = "Message" /\ last'.op # "cancel_message")
            => view_state' = view_state /\ NavigationKept
       /\ (view_state.kind = "Input" /\ last'.op = "reset_input")
            => /\ view_state' = [kind |-> view_state.last, last |-> "None"]
               /\ NavigationKept
       /\ (view_state.kind = "Message" /\ last'.op = "cancel_message")
            => /\ view_state' = [kind |-> view_state.last, last |-> "None"]
               /\ message' = NoMessage
               /\ NavigationKept
      ]_vars

\* an input session entered from the Values pane was cancelled
C2_Witness ==
    /\ last.op = "reset_input"
    /\ view_state = ViewValues
    /\ commands < MaxCommands

StoreErrors == {"new_key:Err", "rename_key:Err", "delete_key:Err"}

\* C3: when the registry refuses a create, rename or delete of a key, the
\* view state becomes Message with an error and the pane the command began
\* in, no post-action is applied, the child lists, the value caches and the
\* registry are unchanged, and dismissing the message returns to that pane.
C3_StoreErrorKeepsState ==
    [][/\ (last'.op = "confirm_input" /\ last'.store \in StoreErrors)
            => /\ input.confirm_fn.fn \in {"new_key", "rename_key", "delete_key"}
               /\ view_state = ViewInput("Keys")
               /\ view_state' = ViewMessage("Keys")
               /\ message'.ty = "Error"
               /\ last'.post = "None"
               /\ UNCHANGED <<key_states, key_table, value_table>>
       /\ (view_state.kind = "Message" /\ last'.op = "cancel_message")
            => view_state' = ViewState_from(view_state.last)
      ]_vars

\* the registry refused the deletion of a key and the error is on screen
C3_Witness ==
    /\ last = Last("confirm_input", "None", "delete_key:Err")
    /\ view_state = ViewMessage("Keys")
    /\ message.ty = "Error"

\* C4: when a validator is present and rejects the confirmed text, the
\* confirmation changes nothing: the registry is not called, no message is
\* shown and the input session stays open with its text.
C4_RejectedConfirmIsNoOp ==
    [][(/\ last'.op = "confirm_input"
        /\ view_state.kind = "Input"
        /\ input.validate_fn.fn # "None"
        /\ CallValidate(input.validate_fn, input.text) # "Ok")
          => /\ last' = Last("confirm_input", "rejected", "-")
             /\ UNCHANGED <<key_states, key_table, value_table, view_state, input,
                            message, panicked>>
      ]_vars

\* a confirmation was rejected by the validator and the prompt is still open
C4_Witness ==
    /\ last = Last("confirm_input", "rejected", "-")
    /\ view_state.kind = "Input"
    /\ validate(input) \notin {"None", "Ok"}

\* the bound the selection invariant puts on an index: max(content_length, 1)
RowBound(content_length) == IF content_length > 1 THEN content_length ELSE 1

\* C5: in every reachable state the selected index of the Children pane is
\* below max(number of current children, 1) and the selected index of the
\* Values pane is below max(number of cached values of the selected child, 1).
C5_SelectionInvariant ==
    ~panicked =>
        /\ key_table.selected >= 0
        /\ key_table.selected < RowBound(Len(get_subkeys))
        /\ value_table.selected >= 0
        /\ value_table.selected < RowBound(Len(get_values[2]))

\* C6: after an Open that pushes or pops a frame both panes have the selected
\* index 0 and a recorded content length that is the length of the list the
\* pane displays.
C6_ResizedOnPushPop ==
    (~panicked /\ last.op = "select" /\ last.post \in {"push", "pop"}) =>
        /\ key_table.selected = 0
        /\ value_table.selected = 0
        /\ key_table.content_length = Len(get_subkeys) * ITEM_HEIGHT
        /\ value_table.content_length = Len(get_values[2]) * ITEM_HEIGHT

\* C7: a step down from the last row of the active pane stays on the last row,
\* a step up from row 0 stays on row 0, and in an empty pane both leave the
\* index at 0.
C7_SelectionClamping ==
    [][/\ (last'.op = "next_row" /\ NormalDispatch /\ ActiveLen >= 1
             /\ ActiveSel = ActiveLen - 1)
            => ActiveSel' = ActiveLen - 1 /\ view_state' = view_state
       /\ (last'.op = "prev_row" /\ NormalDispatch /\ ActiveSel = 0)
            => ActiveSel' = 0 /\ view_state' = view_state
       /\ (last'.op \in {"next_row", "prev_row"} /\ NormalDispatch /\ ActiveLen = 0
             /\ ActiveSel = 0)
            => ActiveSel' = 0 /\ view_state' = view_state
      ]_vars

\* a step down was taken in the Values pane and the last of two values is selected
C7_Witness ==
    /\ last.op = "next_row"
    /\ view_state = ViewValues
    /\ Len(get_values[2]) = 2
    /\ value_table.selected = 1

\* C8: from the empty stack, opening a root entry pushes one frame with the
\* go-up entry selected, and opening that entry pops it: the stack is empty,
\* the path is the root label, the listing is the root listing and the
\* Children selection is 0.
C8_OpenUpRoundTrip ==
    [][/\ (key_states = <<>> /\ last'.op = "select" /\ last'.post = "push")
            => /\ Len(key_states') = 1
               /\ key_states'[1].subkeys[1] = GoUp
               /\ key_states'[1].cached_path
                    = <<base_path, base_subkeys[key_table.selected + 1]>>
               /\ key_table'.selected = 0
       /\ (Len(key_states) = 1 /\ key_table.selected = 0 /\ last'.op = "select"
             /\ ~panicked')
            => /\ last'.post = "pop"
               /\ key_states' = <<>>
               /\ get_path' = <<base_path>>
               /\ get_subkeys' = base_subkeys
               /\ key_table'.selected = 0
               /\ key_table'.content_length = Len(base_subkeys) * ITEM_HEIGHT
      ]_vars

\* the go-up entry of a root's frame was opened and the root listing is back
C8_Witness ==
    /\ last = Last("select", "pop", "-")
    /\ key_states = <<>>
    /\ get_path = <<base_path>>
    /\ key_table.selected = 0

\* C9: the AddSubkey post-action on a frame whose list is in order (go-up
\* first, names ascending) leaves a list in that order which holds the new
\* name exactly once, and the Children selection is the index of the new name.
C9_SortedInsert ==
    [][(/\ last'.op = "confirm_input" /\ last'.post = "AddSubkey"
        /\ key_states # <<>> /\ FrameOrdered(Top.subkeys))
          => /\ FrameOrdered(Top'.subkeys)
             /\ Occurrences(Top'.subkeys, input.text) = 1
             /\ key_table'.selected + 1 \in DOMAIN Top'.subkeys
             /\ Top'.subkeys[key_table'.selected + 1] = input.text
      ]_vars

\* C10: in every reachable state every frame's list has the go-up entry at
\* index 0 and the names after it in ascending order.
C10_FrameOrdering ==
    ~panicked => \A d \in DOMAIN key_states : FrameOrdered(key_states[d].subkeys)

\* C11: a completed DeleteSubkey post-action removes the deleted name from the
\* top frame's list and leaves the Children selection at
\* max(removedIndex - 1, 0), never at an underflowed index.
C11_DeleteSelectionRepair ==
    [][(last'.op = "confirm_input" /\ last'.post = "DeleteSubkey")
          => LET name == input.confirm_fn.name
                 removedIndex == Position(Top.subkeys, name)
             IN  /\ key_states # <<>> /\ key_states' # <<>>
                 /\ removedIndex >= 0
                 /\ Top'.subkeys = VecRemove(Top.subkeys, removedIndex)
                 /\ Occurrences(Top'.subkeys, name) = 0
                 /\ key_table'.selected
                      = (IF removedIndex - 1 > 0 THEN removedIndex - 1 ELSE 0)
                 /\ key_table'.content_length = Len(Top'.subkeys) * ITEM_HEIGHT
      ]_vars

\* the child at index 2 of a list of three rows was deleted and row 1 is selected
C11_Witness ==
    /\ last = Last("confirm_input", "DeleteSubkey", "delete_key:Ok")
    /\ key_states # <<>>
    /\ Len(Top.subkeys) = 2
    /\ key_table.selected = 1

\* C12: within the lifetime of a frame the values of a child name are read
\* from the registry at most once: a read happens only for a name the frame
\* has no cache entry for, the read leaves an entry for it, and an entry, once
\* there, stays in the frame with the same list for as long as the frame lives.
C12_MemoizedLookup ==
    [][~panicked' =>
         /\ (last'.store \in {"read_values", "read:Err"})
              => /\ key_states # <<>> /\ Len(key_states') = Len(key_states)
                 /\ Top'.subkeys = Top.subkeys
                 /\ LET child == Top'.subkeys[key_table'.selected + 1]
                    IN  /\ child \notin DOMAIN Top.cached_values
                        /\ child \in DOMAIN Top'.cached_values
         /\ \A d \in DOMAIN key_states \cap DOMAIN key_states' :
              \A n \in DOMAIN key_states[d].cached_values :
                 /\ n \in DOMAIN key_states'[d].cached_values
                 /\ key_states'[d].cached_values[n] = key_states[d].cached_values[n]
      ]_vars

\* the selection moved onto a child whose values were already cached: no read
C12_Witness ==
    /\ last \in {Last("next_row", "-", "-"), Last("prev_row", "-", "-")}
    /\ view_state = ViewKeys
    /\ key_states # <<>>
    /\ LET child == Top.subkeys[key_table.selected + 1]
       IN  /\ child \in DOMAIN Top.cached_values
           /\ Top.cached_values[child] # <<>>
    /\ Cardinality(DOMAIN Top.cached_values) >= 2

\* the bytes of s with the letters A..Z folded to a..z
Folded(s) ==
    LET bytes == Chars(s)
    IN  [i \in DOMAIN bytes |-> IF bytes[i] \in 65..90 THEN bytes[i] + 32 ELSE bytes[i]]

\* some sibling outside the exclusion set equals text when case is ignored
DuplicateOf(text, siblings, excluded) ==
    \E a \in Names(siblings) : Folded(a) = Folded(text) /\ a \notin Names(excluded)

NameValidators == {"key_name_validator", "rename_key_validator", "value_name_validator"}

AlreadyExists == {"This key already exists", "This value already exists"}

\* C13: the name validator of an open prompt rejects, as already existing, a
\* text that equals a sibling name when case is ignored, unless that sibling
\* is in the exclusion set; a text with no such sibling passes the duplicate
\* check.
C13_CaseInsensitiveDuplicate ==
    (~panicked /\ view_state.kind = "Input" /\ input.validate_fn.fn \in NameValidators) =>
        LET f == input.validate_fn
            siblings == IF f.fn = "value_name_validator" THEN f.values ELSE f.subkeys
            result == CallValidate(f, input.text)
        IN  /\ DuplicateOf(input.text, siblings, f.exclude) => result \in AlreadyExists
            /\ ~DuplicateOf(input.text, siblings, f.exclude) => result \notin AlreadyExists
            /\ (f.fn = "rename_key_validator" /\ input.text # f.exclude[1]
                  /\ Folded(input.text) = Folded(f.exclude[1]))
                 => result = "Ok"

\* a create-key confirmation of "A" next to the sibling "a" was rejected
C13_Witness ==
    /\ last = Last("confirm_input", "rejected", "-")
    /\ view_state.kind = "Input"
    /\ input.validate_fn.fn = "key_name_validator"
    /\ input.text = "A"
    /\ "a" \in Names(input.validate_fn.subkeys)

\* the longest name the validator f accepts
NameLimit(f) == IF f.fn = "value_name_validator" THEN MaxValueNameLen ELSE MaxKeyNameLen

\* a text that is empty or all whitespace, holds a forward slash (the character
\* the validators treat as the path separator), or is longer than limit bytes
Malformed(text, limit) ==
    LET bytes == Chars(text)
    IN  \/ Len(bytes) > limit
        \/ \A i \in DOMAIN bytes : bytes[i] \in {9, 10, 11, 12, 13, 32}
        \/ \E i \in DOMAIN bytes : bytes[i] = 47

KeyStoreCalls == {"new_key:Ok", "new_key:Err", "rename_key:Ok", "rename_key:Err"}

\* C14: the name validator of an open create or rename prompt rejects a text
\* that is empty or whitespace only, holds the path separator, or is longer
\* than the maximum length, and no create or rename call reaches the registry
\* with such a name.
C14_MalformedNamesRejected ==
    [][/\ (~panicked /\ view_state.kind = "Input" /\ input.validate_fn.fn \in NameValidators
             /\ Malformed(input.text, NameLimit(input.validate_fn)))
            => /\ CallValidate(input.validate_fn, input.text) \notin {"Ok", "None"}
               /\ last'.op = "confirm_input" => last'.post = "rejected"
       /\ (last'.op = "confirm_input" /\ last'.store \in KeyStoreCalls)
            => /\ input.confirm_fn.fn \in {"new_key", "rename_key"}
               /\ ~Malformed(input.text, MaxKeyNameLen)
      ]_vars

\* a create-key confirmation of a name of 256 bytes was rejected
C14_Witness ==
    /\ last = Last("confirm_input", "rejected", "-")
    /\ view_state.kind = "Input"
    /\ input.validate_fn.fn = "key_name_validator"
    /\ input.text = LongText
    /\ Len(Chars(input.text)) = MaxKeyNameLen + 1

\* C15: swap_viewing_table turns the Keys view into the Values view and the
\* Values view into the Keys view, changes nothing in Input and Message modes,
\* and in every mode leaves both selections, the navigation stack, the
\* pending input and the message alone.
C15_SwitchPane ==
    [][(last'.op = "swap_viewing_table")
          => /\ view_state = ViewKeys => view_state' = ViewValues
             /\ view_state = ViewValues => view_state' = ViewKeys
             /\ view_state.kind \in {"Input", "Message"} => view_state' = view_state
             /\ UNCHANGED <<key_states, key_table, value_table, input, message, panicked>>
      ]_vars

\* the pane was switched while a prompt was open, and the prompt is still open
C15_Witness ==
    /\ last = Last("swap_viewing_table", "-", "-")
    /\ view_state.kind = "Input"
    /\ input.confirm_fn.fn # "None"

\* C16: in every reachable state a message is held exactly when the view
\* state is Message, and what is held is one message, of severity info or error.
C16_MessageOverlay ==
    /\ (message # NoMessage) <=> (view_state.kind = "Message")
    /\ message # NoMessage => message.ty \in {"Info", "Error"}
    /\ DOMAIN message = {"ty", "message"}

\* the message of a successful command is on screen
C16_Witness ==
    /\ view_state.kind = "Message"
    /\ message.ty = "Info"
    /\ last.op = "confirm_input"

\* C17: when reading the selected child or its values fails during a
\* selection move, the list displayed for that child is empty, no message is
\* shown, the view state is unchanged and the controller goes on.
C17_ReadFailureDegrades ==
    [][(last'.store = "read:Err")
          => /\ last'.op \in {"next_row", "prev_row"}
             /\ ~panicked'
             /\ view_state' = view_state
             /\ message' = NoMessage
             /\ get_values' = <<TRUE, <<>>>>
             /\ value_table' = ScrollableTableState_new(0)
             /\ UNCHANGED <<input, commands>>
      ]_vars

\* the read of the child "a", which holds values in the registry, failed
C17_Witness ==
    /\ last.store = "read:Err"
    /\ key_states # <<>>
    /\ Top.subkeys[key_table.selected + 1] = "a"
    /\ "a" \in DOMAIN Top.key
    /\ Top.key["a"] # <<>>
    /\ get_values = <<TRUE, <<>>>>

\* C18: after any sequence of successful create, rename and delete commands
\* in a frame, the list displayed for the selected child is none, or the
\* values the registry now holds for the child of that name (or the empty list
\* a failed read leaves), never the values cached for a deleted or renamed child.
C18_ViewConsistentWithStore ==
    (~panicked /\ key_states # <<>> /\ get_values[1]) =>
        LET child == Top.subkeys[key_table.selected + 1]
        IN  \/ get_values[2] = FailedRead
            \/ /\ child \in DOMAIN Top.key
               /\ get_values[2] = Top.key[child]

\* C19: in every reachable state with a frame on the stack the top frame's
\* value cache has an entry for the selected child, and new_value never
\* reaches its unreachable branch.
C19_SelectedChildCached ==
    /\ (~panicked /\ key_states # <<>>)
          => Top.subkeys[key_table.selected + 1] \in DOMAIN Top.cached_values
    /\ ~(panicked /\ last = Last("new_value", "panic", "unreachable"))

\* C20: the position lookups of the post-actions never fail: no confirmed
\* create, rename or delete of a key ends in an unreachable branch of
\* post_action_add_subkey, post_action_rename_subkey or post_action_delete_subkey.
C20_LookupsNeverFail ==
    ~(panicked /\ last = Last("confirm_input", "panic", "unreachable"))

\* C21: a completed RenameSubkey post-action puts the new name at the list
\* position of the old one: the length of the list, every other entry, the
\* Children selection and the depth of the stack are unchanged and the old
\* name no longer occurs.
C21_RenameInPlace ==
    [][(last'.op = "confirm_input" /\ last'.post = "RenameSubkey")
          => LET oldName == input.confirm_fn.name
                 newName == input.text
                 at == Position(Top.subkeys, oldName)
             IN  /\ key_states # <<>> /\ Len(key_states') = Len(key_states)
                 /\ at >= 1 /\ at = key_table.selected
                 /\ Len(Top'.subkeys) = Len(Top.subkeys)
                 /\ Top'.subkeys[at + 1] = newName
                 /\ \A i \in DOMAIN Top.subkeys :
                       i # at + 1 => Top'.subkeys[i] = Top.subkeys[i]
                 /\ Occurrences(Top'.subkeys, oldName) = 0
                 /\ key_table' = key_table
      ]_vars

\* the last of two children was renamed from "a" to "A" and is still selected
C21_Witness ==
    /\ last = Last("confirm_input", "RenameSubkey", "rename_key:Ok")
    /\ key_states # <<>>
    /\ Top.subkeys = <<GoUp, "-", "A">>
    /\ key_table.selected = 2

\* the begin commands of a key or of a value: create(), rename(), delete()
BeginRenameOrDelete == {"rename_key", "rename_value", "delete_key", "delete_value"}

\* C22: no post-action is applied while the stack is empty; at the root
\* listing BeginCreate in the Children pane and BeginRename and BeginDelete
\* show an error message, open no prompt and call no store operation; while
\* the prompt of a mutating command is open the stack is not empty; and the
\* listing shown for the empty stack is always the fixed root listing.
C22_RootIsReadOnly ==
    [][/\ last'.post \in {"AddSubkey", "RenameSubkey", "DeleteSubkey"}
            => key_states # <<>>
       /\ (key_states = <<>> /\ NormalDispatch
             /\ \/ last'.op = "new_key"
                \/ last'.op \in BeginRenameOrDelete)
            => /\ ~panicked'
               /\ view_state'.kind = "Message"
               /\ message'.ty = "Error"
               /\ input' = input
               /\ last'.store = "-"
       /\ (view_state'.kind = "Input"
             /\ input'.confirm_fn.fn \in {"new_key", "rename_key", "delete_key"})
            => key_states' # <<>>
       /\ (key_states' = <<>>) => get_subkeys' = base_subkeys
      ]_vars

\* C23: a message set by confirming a prompt returns to the pane the prompt
\* returned to; in every prompt and every message overlay the pane to return
\* to is Keys or Values; so cancelling a prompt and dismissing a message
\* restore that pane and never reach an unreachable conversion.
C23_ReturnPaneKnown ==
    [][/\ (last'.op = "confirm_input" /\ view_state'.kind = "Message")
            => view_state'.last = view_state.last
       /\ view_state'.kind \in {"Input", "Message"}
            => view_state'.last \in {"Keys", "Values"}
       /\ (last'.op \in {"reset_input", "cancel_message"})
            => /\ ~panicked'
               /\ view_state'.kind = view_state.last
               /\ view_state'.kind \in {"Keys", "Values"}
      ]_vars

C23_Witness ==
    /\ last.op = "confirm_input" /\ last.post = "AddSubkey"
    /\ view_state = ViewMessage("Keys")
    /\ message.ty = "Info"

\* the confirm closures of the staged new_value command: name, type, data
ValueStages == {"new_value", "new_value_type", "new_value_data"}

\* C24: cancelling the prompt of any stage of the staged new_value command
\* (name, type, data) returns to the Values pane the command began in, clears
\* the validator and the confirm closure of the session, applies no
\* post-action and calls no store operation: the stack, both selections and
\* the message are unchanged.
C24_CancelStagedCreate ==
    [][(last'.op = "reset_input" /\ input.confirm_fn.fn \in ValueStages)
          => /\ ~panicked'
             /\ view_state.last = "Values" /\ view_state' = ViewValues
             /\ input'.validate_fn = NoFn /\ input'.confirm_fn = NoFn
             /\ last'.post = "-" /\ last'.store = "-"
             /\ UNCHANGED <<key_states, key_table, value_table, message>>
      ]_vars

\* the prompt of the type stage was cancelled: its choices are still there
C24_Witness ==
    /\ last.op = "reset_input"
    /\ view_state = ViewValues
    /\ input.ty = "Choice" /\ input.items = get_type_choices_vec
    /\ input.confirm_fn = NoFn /\ input.validate_fn = NoFn

\* the child list, the breadcrumb and the values cache of the frames 1..n
FrameView(states, n) ==
    [i \in 1..n |-> <<states[i].subkeys, states[i].cached_path, states[i].cached_values>>]

\* C25: opening a child pushes a frame with an empty values cache above
\* frames whose child list, breadcrumb and values cache are untouched, and
\* go-up removes exactly that frame, so a push followed by a pop leaves the
\* parent frame as it was and a re-opened child starts with an empty cache:
\* the first selection of a child in it reads the values from the store.
C25_PushPopFrameEffect ==
    [][/\ (last'.op = "select" /\ last'.post = "push")
            => /\ Len(key_states') = Len(key_states) + 1
               /\ FrameView(key_states', Len(key_states))
                     = FrameView(key_states, Len(key_states))
               /\ Top'.cached_values = EmptyMap
       /\ (last'.op = "select" /\ last'.post = "pop")
            => /\ Len(key_states') = Len(key_states) - 1
               /\ FrameView(key_states', Len(key_states'))
                     = FrameView(key_states, Len(key_states'))
       /\ (last'.op \in {"next_row", "prev_row"} /\ view_state.kind = "Keys"
             /\ key_states # <<>> /\ Top.cached_values = EmptyMap)
            => last'.store \in {"read_values", "read:Err"}
      ]_vars

\* back in a parent frame that had cached the values of a child before the
\* child was opened
C25_Witness ==
    /\ last = Last("select", "pop", "-")
    /\ Len(key_states) = 1
    /\ Top.cached_values # EmptyMap
    /\ Top.subkeys = <<GoUp, "-", "a">>

\* the breadcrumbs of the frames on the stack, bottom first
Breadcrumbs(states) == [i \in DOMAIN states |-> states[i].cached_path]

\* C26: the current path is the root label when the stack is empty and the
\* top frame's breadcrumb otherwise; the breadcrumb of every frame is the
\* breadcrumb of the frame below it (the root label for the first frame)
\* extended by the name that was opened; opening a child adds one frame,
\* go-up removes one, and no other step changes the depth or a breadcrumb.
C26_BreadcrumbAndDepth ==
    [][~panicked' =>
         /\ get_path' = IF key_states' = <<>> THEN <<base_path>>
                        ELSE key_states'[Len(key_states')].cached_path
         /\ \A i \in DOMAIN key_states' :
               LET below == IF i = 1 THEN <<base_path>> ELSE key_states'[i - 1].cached_path
                   crumb == key_states'[i].cached_path
               IN  /\ Len(crumb) = i + 1
                   /\ SubSeq(crumb, 1, i) = below
         /\ (last'.op = "select" /\ last'.post = "push")
               => /\ Breadcrumbs(key_states')
                       = Append(Breadcrumbs(key_states),
                                Append(get_path, get_subkeys[key_table.selected + 1]))
         /\ (last'.op = "select" /\ last'.post = "pop")
               => /\ key_states # <<>>
                  /\ Breadcrumbs(key_states')
                       = SubSeq(Breadcrumbs(key_states), 1, Len(key_states) - 1)
         /\ ~(last'.op = "select" /\ last'.post \in {"push", "pop"})
               => Breadcrumbs(key_states') = Breadcrumbs(key_states)
      ]_vars

C26_Witness ==
    /\ last = Last("select", "push", "open")
    /\ Len(key_states) = 2
    /\ get_path = <<base_path, base_subkeys[2], "a">>

Moves == {"next_row", "prev_row"}

\* C27: a selection move refreshes the values exactly when the Keys view is
\* active: after a move in the Keys view with a frame on the stack the top
\* frame's cache has an entry for the newly selected child, the Values table
\* records the length of that entry (in rows of ITEM_HEIGHT) and its selected
\* index is 0; a move in the Values view changes nothing but the selected
\* index of the Values table and calls no store operation.
C27_RefreshOnKeysMove ==
    [][(last'.op \in Moves /\ ~panicked') =>
         /\ (view_state.kind = "Keys" /\ key_states # <<>>)
               => LET child == Top'.subkeys[key_table'.selected + 1]
                  IN  /\ child \in DOMAIN Top'.cached_values
                      /\ value_table'.content_length
                            = Len(Top'.cached_values[child]) * ITEM_HEIGHT
                      /\ value_table'.selected = 0
         /\ (view_state.kind = "Values")
               => /\ last'.store = "-"
                  /\ value_table'.content_length = value_table.content_length
                  /\ UNCHANGED <<key_states, key_table, view_state, input, message>>
         /\ (last'.store \in {"read_values", "read:Err"}) => view_state.kind = "Keys"
      ]_vars

\* a step down in the Keys view read the two values of the child it reached
C27_Witness ==
    /\ last = Last("next_row", "-", "read_values")
    /\ view_state = ViewKeys
    /\ key_states # <<>>
    /\ key_table.selected >= 1
    /\ value_table.content_length = 2 * ITEM_HEIGHT
    /\ value_table.selected = 0

\* C28: a store failure while a key is opened is fatal: a select() either
\* pushes a frame, pops one, or aborts the process, and never ends in a
\* message or in an unchanged stack; a failure while the values of a child
\* are fetched never aborts: the selection move it happens in completes.
C28_OpenFailureIsFatal ==
    [][/\ (last'.op = "select")
            => \/ panicked' /\ last' = Last("select", "panic", "open")
               \/ /\ ~panicked' /\ last'.post \in {"push", "pop"}
                  /\ Len(key_states') # Len(key_states)
                  /\ view_state' = view_state /\ message' = message
       /\ (last'.store = "read:Err") => (~panicked' /\ last'.op \in Moves)
       /\ (last'.op \in Moves) => ~panicked'
      ]_vars

\* the process aborted in select() because the key could not be opened
C28_Witness ==
    /\ panicked
    /\ last = Last("select", "panic", "open")

\* the choice a choice prompt is on
Chosen(inp) == inp.items[inp.selected + 1]

\* C29: the delete prompt is a prompt of the two choices No and Yes that
\* starts on No; confirming it on No calls no store operation, shows no
\* message, applies no post-action, leaves the stack and the Keys selection
\* as they are and returns to the pane the prompt was opened from; the
\* store's delete is called only by confirming the prompt on Yes.
C29_DeleteNeedsYes ==
    [][/\ (last'.op = "delete_key" /\ last'.post = "input")
            => /\ input'.ty = "Choice"
               /\ input'.items = <<"No", "Yes">>
               /\ Chosen(input') = "No"
       /\ (last'.op = "confirm_input" /\ input.confirm_fn.fn = "delete_key"
             /\ input.ty = "Choice" /\ Chosen(input) = "No")
            => /\ ~panicked'
               /\ last'.post = "None" /\ last'.store = "-"
               /\ message' = message /\ message' = NoMessage
               /\ view_state.last \in {"Keys", "Values"}
               /\ view_state'.kind = view_state.last
               /\ UNCHANGED <<key_states, key_table, value_table>>
       /\ (last'.store \in {"delete_key:Ok", "delete_key:Err"})
            => /\ last'.op = "confirm_input"
               /\ input.confirm_fn.fn = "delete_key"
               /\ input.ty = "Choice" /\ Chosen(input) = "Yes"
      ]_vars

\* the delete prompt was confirmed on No, back in the Keys view
C29_Witness ==
    /\ last = Last("confirm_input", "None", "-")
    /\ view_state = ViewKeys
    /\ input.ty = "Choice" /\ input.items = <<"No", "Yes">> /\ input.selected = 0
    /\ key_states # <<>> /\ key_table.selected >= 1

\* C30: the go-up entry is never renamed or deleted: in a frame with the
\* selected index 0 the rename and delete commands of the Keys view show an
\* error message, open no prompt and call no store operation, and every
\* rename or delete call of the store names a child of the top frame's key,
\* never the go-up entry.
C30_GoUpIsProtected ==
    [][/\ (last'.op \in {"rename_key", "delete_key"} /\ ~panicked'
             /\ key_states # <<>> /\ key_table.selected = 0)
            => /\ last'.post = "message" /\ last'.store = "-"
               /\ view_state'.kind = "Message" /\ message'.ty = "Error"
               /\ input' = input
       /\ (last'.store \in {"rename_key:Ok", "rename_key:Err",
                            "delete_key:Ok", "delete_key:Err"})
            => /\ key_states # <<>>
               /\ input.confirm_fn.name # GoUp
      ]_vars

\* C31: the validator of the rename prompt rejects a text equal to the
\* current name of the child, character for character; accepts a text that
\* differs from the current name in letter case only; and rejects, as
\* already existing, a well-formed text that equals another sibling when
\* case is ignored.  A confirmation goes through exactly when it accepts.
C31_RenameSelfExclusion ==
    [][(~panicked /\ view_state.kind = "Input"
          /\ input.validate_fn.fn = "rename_key_validator")
          => LET f == input.validate_fn
                 current == f.exclude[1]
                 text == input.text
                 result == CallValidate(f, text)
             IN  /\ Len(f.exclude) = 1 /\ current = input.confirm_fn.name
                 /\ text = current => result = "The name of the key must be new"
                 /\ (text # current /\ Folded(text) = Folded(current)
                       /\ ~Malformed(text, MaxKeyNameLen))
                      => result = "Ok"
                 /\ (~Malformed(text, MaxKeyNameLen)
                       /\ \E a \in Names(f.subkeys) \ {current} : Folded(a) = Folded(text))
                      => result = "This key already exists"
                 /\ (last'.op = "confirm_input")
                      => (last'.post = "rejected" <=> result # "Ok")
      ]_vars

\* the child "a" was renamed to "A" next to the sibling "-"
C31_Witness ==
    /\ last = Last("confirm_input", "RenameSubkey", "rename_key:Ok")
    /\ key_states # <<>>
    /\ Names(Top.subkeys) = {GoUp, "-", "A"}
    /\ DOMAIN Top.key = {"-", "A"}

====
